------------------------------ MODULE Spec2Model ------------------------------
(***************************************************************************)
(* CFCSS instrumentation pass (plugin.cc, pass_cfcss::execute) and the     *)
(* CTRLSIG instruction encoder (func.cpp, _inst_ctrlsig).                  *)
(*                                                                         *)
(* Two specifications:                                                     *)
(*   EncSpec  - the encoder applied to 8-bit operands;                     *)
(*   Spec     - one run of pass_cfcss::execute over a module, one action   *)
(*              per loop of execute, followed by the execution of the      *)
(*              emitted checking instructions along control transfers.     *)
(***************************************************************************)
EXTENDS Integers, Sequences, FiniteSets, TLC

-----------------------------------------------------------------------------
(* Bit arithmetic on non-negative ints, as C computes it.                  *)

\* typedef uint8_t cfcss_sig_t
SigBits == 8

SigMod == 2 ^ SigBits

RECURSIVE BitXor(_, _)
BitXor(a, b) ==
  IF a = 0 THEN b
  ELSE IF b = 0 THEN a
  ELSE (((a % 2) + (b % 2)) % 2) + 2 * BitXor(a \div 2, b \div 2)

RECURSIVE BitOr(_, _)
BitOr(a, b) ==
  IF a = 0 THEN b
  ELSE IF b = 0 THEN a
  ELSE (IF (a % 2) = 1 \/ (b % 2) = 1 THEN 1 ELSE 0) + 2 * BitOr(a \div 2, b \div 2)

RECURSIVE BitAnd(_, _)
BitAnd(a, b) ==
  IF a = 0 \/ b = 0 THEN 0
  ELSE (IF (a % 2) = 1 /\ (b % 2) = 1 THEN 1 ELSE 0) + 2 * BitAnd(a \div 2, b \div 2)

Shr(a, k) == a \div (2 ^ k)

Shl(a, k) == a * (2 ^ k)

-----------------------------------------------------------------------------
(* func.cpp: the encoder.                                                  *)

\* RISC-V major opcode custom-0, the CUSTOM_0 operand of ".insn r"
Custom0 == 11

\* _inst_ctrlsig(d, S, D, m): the five fields printed into ".insn r"
EncFieldsNoMode(d, S, D, m) ==
  [ f3     |-> BitAnd(Shr(D, 4), 7),
    funct7 |-> BitAnd(Shr(d, 1), 127),
    rd     |-> Shl(BitAnd(D, 15), 1),
    rs1    |-> BitOr(BitAnd(Shr(D, 7), 1), Shl(BitAnd(S, 15), 1)),
    rs2    |-> BitOr(BitAnd(Shr(S, 4), 15), Shl(BitAnd(d, 1), 4)) ]

EncFieldsSwapped(d, S, D, m) ==
  [ f3     |-> BitAnd(Shr(D, 4), 7),
    funct7 |-> BitAnd(Shr(d, 1), 127),
    rd     |-> BitOr(Shl(BitAnd(D, 15), 1), BitAnd(m, 1)),
    rs1    |-> BitOr(BitAnd(Shr(S, 4), 15), Shl(BitAnd(d, 1), 4)),
    rs2    |-> BitOr(BitAnd(Shr(D, 7), 1), Shl(BitAnd(S, 15), 1)) ]

EncFields(d, S, D, m) ==
  [ f3     |-> BitAnd(Shr(D, 4), 7),
    funct7 |-> BitAnd(Shr(d, 1), 127),
    rd     |-> BitOr(Shl(BitAnd(D, 15), 1), BitAnd(m, 1)),
    rs1    |-> BitOr(BitAnd(Shr(D, 7), 1), Shl(BitAnd(S, 15), 1)),
    rs2    |-> BitOr(BitAnd(Shr(S, 4), 15), Shl(BitAnd(d, 1), 4)) ]

\* inst_ctrlsig_s / inst_ctrlsig_m
InstCtrlsigS(d, S, D) == EncFields(d, S, D, 0)

InstCtrlsigM(d, S, D) == EncFields(d, S, D, 1)

\* Bit i of the R-type word the assembler builds from
\* ".insn r opcode, f3, funct7, rd, rs1, rs2" (fields within their widths)
WordBit(f, i) ==
  IF i >= 25 THEN Shr(f.funct7, i - 25) % 2
  ELSE IF i >= 20 THEN Shr(f.rs2, i - 20) % 2
  ELSE IF i >= 15 THEN Shr(f.rs1, i - 15) % 2
  ELSE IF i >= 12 THEN Shr(f.f3, i - 12) % 2
  ELSE IF i >= 7 THEN Shr(f.rd, i - 7) % 2
  ELSE Shr(Custom0, i) % 2

\* The value of bits hi..lo of that word
RECURSIVE WordBits(_, _, _)
WordBits(f, hi, lo) ==
  IF hi < lo THEN 0 ELSE WordBit(f, lo) + 2 * WordBits(f, hi, lo + 1)

\* Inverse of the field packing
DecFields(f) ==
  [ d |-> BitOr(Shl(f.funct7, 1), BitAnd(Shr(f.rs2, 4), 1)),
    S |-> BitOr(Shl(BitAnd(f.rs2, 15), 4), BitAnd(Shr(f.rs1, 1), 15)),
    D |-> BitOr(BitOr(Shl(BitAnd(f.rs1, 1), 7), Shl(f.f3, 4)),
                BitAnd(Shr(f.rd, 1), 15)),
    m |-> BitAnd(f.rd, 1) ]

Byte == 0 .. (SigMod - 1)

\* One-hot bytes, zero and all-ones
ByteSamples == {0, SigMod - 1} \cup {2 ^ k : k \in 0 .. (SigBits - 1)}

\* Operand triples: one operand over the full byte range, the others sampled
EncInputs ==
  {<<18, 52, 86>>}
    \cup (Byte \X ByteSamples \X ByteSamples)
    \cup (ByteSamples \X Byte \X ByteSamples)
    \cup (ByteSamples \X ByteSamples \X Byte)


-----------------------------------------------------------------------------
(* Finite maps (std::map) and sequence helpers.                            *)

\* std::map::operator[] read: a missing key is value-initialised to 0
MapGet(m, k) == IF k \in DOMAIN m THEN m[k] ELSE 0

MapPut(m, k, v) == [x \in (DOMAIN m) \cup {k} |-> IF x = k THEN v ELSE m[x]]

EmptyMap == [x \in {} |-> 0]

Range(s) == {s[i] : i \in 1 .. Len(s)}

RECURSIVE Reverse(_)
Reverse(s) == IF s = <<>> THEN <<>> ELSE Append(Reverse(Tail(s)), Head(s))

RECURSIVE Concat(_)
Concat(ss) == IF ss = <<>> THEN <<>> ELSE Head(ss) \o Concat(Tail(ss))

\* index of the first occurrence of x in s (x must occur)
IndexOf(s, x) == CHOOSE i \in 1 .. Len(s) : s[i] = x /\ \A j \in 1 .. (i - 1) : s[j] # x

\* s with its i-th element replaced by the elements of t
Splice(s, i, t) == SubSeq(s, 1, i - 1) \o t \o SubSeq(s, i + 1, Len(s))

\* the elements of a set of naturals in ascending order
RECURSIVE SortedSeq(_)
SortedSeq(S) ==
  IF S = {} THEN <<>>
  ELSE LET m == CHOOSE x \in S : \A y \in S : x <= y
       IN <<m>> \o SortedSeq(S \ {m})

-----------------------------------------------------------------------------
(* The modules the pass is run on.                                         *)

\* Basic blocks per function of the single-function modules
NumBlocks == 4

\* Successor edges of one block (3: a GIMPLE_SWITCH block)
MaxSucc == 3

\* CFG edges per function of the single-function modules
MaxEdges == 4

\* Functions with a body in the modules with calls
NumFuncs == 2

\* Basic blocks per function in the modules with calls
CallBlocks == 3

\* CFG edges per function in the modules with calls
CallEdges == 3

\* Call statements per module
MaxCalls == 3

\* Call statements sit in the first CallSiteBlocks blocks of a function
CallSiteBlocks == 2

\* CFG edges of one function plus call statements, in the modules with calls
CallBudget == 5

\* The function-entry pseudo block ENTRY_BLOCK_PTR_FOR_FN; never given a signature
ENTRY == 0

\* A callee without a gimple body
External == 0

\* sequences without repetition over S of length at most k
RECURSIVE DistinctSeqs(_, _)
DistinctSeqs(S, k) ==
  IF k = 0 THEN {<<>>}
  ELSE {<<>>} \cup UNION {{<<x>> \o t : t \in DistinctSeqs(S \ {x}, k - 1)} : x \in S}

\* successor lists of blocks 1..b within 1..nb: at most ms per block, me in all
RECURSIVE SuccLists(_, _, _, _)
SuccLists(b, nb, ms, me) ==
  IF b = 0 THEN {<<>>}
  ELSE UNION {{Append(g, s) : g \in SuccLists(b - 1, nb, ms, me - Len(s))} :
               s \in {t \in DistinctSeqs(1 .. nb, ms) : Len(t) <= me}}

\* sources of the edges into block b, in block order
SrcsOf(g, b) == SortedSeq({a \in 1 .. Len(g) : b \in Range(g[a])})

\* the blocks reached from the set R along the edges of g
RECURSIVE ReachFrom(_, _)
ReachFrom(g, R) ==
  LET N == R \cup UNION {Range(g[a]) : a \in R}
  IN IF N = R THEN R ELSE ReachFrom(g, N)

\* every block is reached from the first one (the host removes dead blocks)
Connected(g) == ReachFrom(g, {1}) = 1 .. Len(g)

\* blocks with two or more incoming edges: their stored order is the host's
Joins(g) == {b \in 1 .. Len(g) : Len(SrcsOf(g, b)) >= 2}

\* a function body: successor lists, and the joins whose stored predecessor
\* order is descending instead of ascending
BodiesOf(nb, ms, me) ==
  UNION {{[succ |-> g, rev |-> r] : r \in SUBSET Joins(g)} :
          g \in {h \in SuccLists(nb, nb, ms, me) : Connected(h)}}

\* the bodies of at most nb blocks
Bodies(nb, ms, me) == UNION {BodiesOf(n, ms, me) : n \in 1 .. nb}


\* call statements of a module: [caller, blk, callee], blk local to the caller;
\* listed by caller and block, statement order within a block is list order
CallKey(c) == (c.caller * 100 + c.blk) * 10 + c.callee

CallLists(nf, nb, k) ==
  LET C == [caller : 1 .. nf, blk : 1 .. nb, callee : {External} \cup (1 .. nf)]
      RECURSIVE L(_)
      L(n) == IF n = 0 THEN {<<>>}
              ELSE LET P == L(n - 1)
                   IN P \cup {Append(t, c) : t \in {u \in P : Len(u) = n - 1}, c \in C}
  IN {t \in L(k) : \A i \in 1 .. (Len(t) - 1) : CallKey(t[i]) <= CallKey(t[i + 1])}

\* first global block id of function f when every function has n blocks
Off(f, n) == (f - 1) * n

\* the module as the host presents it: nf functions with the bodies bs and
\* the call statements cl
ModFuncs(bs) == [i \in 1 .. Len(bs) |-> i]

ModChain(bs, n) == [f \in 1 .. Len(bs) |-> [i \in 1 .. n |-> Off(f, n) + i]]

ModSuccs(bs, n) ==
  [b \in 1 .. (Len(bs) * n) |->
     LET f == ((b - 1) \div n) + 1
         l == b - Off(f, n)
         sl == bs[f].succ[l]
     IN [i \in 1 .. Len(sl) |-> Off(f, n) + sl[i]]]

ModPreds(bs, n) ==
  [b \in 1 .. (Len(bs) * n) |->
     LET f == ((b - 1) \div n) + 1
         l == b - Off(f, n)
         asc == SrcsOf(bs[f].succ, l)
         ord == IF l \in bs[f].rev THEN Reverse(asc) ELSE asc
     IN (IF l = 1 THEN <<ENTRY>> ELSE <<>>) \o [i \in 1 .. Len(ord) |-> Off(f, n) + ord[i]]]

ModStmts(bs, n, cl) ==
  [b \in 1 .. (Len(bs) * n) |->
     LET f == ((b - 1) \div n) + 1
         l == b - Off(f, n)
     IN SortedSeq({i \in 1 .. Len(cl) : cl[i].caller = f /\ cl[i].blk = l})]

ModCs(cl) == [i \in 1 .. Len(cl) |-> [caller |-> cl[i].caller, callee |-> cl[i].callee]]

\* cgraph_node::callees: a linked list, newest edge first
ModCallees(bs, cl) ==
  [f \in 1 .. Len(bs) |-> Reverse(SortedSeq({i \in 1 .. Len(cl) : cl[i].caller = f}))]

-----------------------------------------------------------------------------
VARIABLES
  pc,               \* position in execute / in the instrumented program
  funcs,            \* functions with a gimple body, FOR_EACH_FUNCTION order
  chain,            \* function -> its blocks, FOR_EACH_BB_FN order
  succs, preds,     \* block -> edge lists (bb->succs, bb->preds), as blocks
  stmts,            \* block -> its call statements (call-graph edge ids)
  cs,               \* call-graph edge -> [caller, callee]
  callees,          \* function -> node->callees
  hostCloneRev,     \* the host lists a clone's call edges in reverse order
  call_sites, call_sites_undef, num_clones, dup_num, clones,
  pred_set, sig, acc, diff, dmap, fall_thru_sigs,
  instr,            \* block -> the checking instruction inserted in it
  markers,          \* call statements bracketed by the CUSTOM_1 markers
  ret,              \* <<v>> once execute has returned v
  redirected,       \* call-graph edges passed to redirect_callee
  splitLog,         \* the split_block and split_edge calls made, in order
  enc               \* last encoder call: operands and emitted fields

vars == <<pc, funcs, chain, succs, preds, stmts, cs, callees, hostCloneRev,
          call_sites, call_sites_undef, num_clones, dup_num, clones,
          pred_set, sig, acc, diff, dmap, fall_thru_sigs, instr, markers, ret,
          redirected, splitLog, enc>>

modVars == <<funcs, chain, succs, preds, stmts, cs, callees>>

planVars == <<call_sites, call_sites_undef, num_clones, dup_num, clones,
              pred_set, sig, acc, diff, dmap, fall_thru_sigs, instr, markers,
              redirected, splitLog>>

NoFields == [f3 |-> 0, funct7 |-> 0, rd |-> 0, rs1 |-> 0, rs2 |-> 0]

NoEnc == [d |-> 0, S |-> 0, D |-> 0, m |-> 0, f |-> NoFields, fn |-> "none", done |-> FALSE]

InitPlan ==
  /\ pc = "collect"
  /\ call_sites = <<>>
  /\ call_sites_undef = <<>>
  /\ num_clones = EmptyMap
  /\ dup_num = EmptyMap
  /\ clones = EmptyMap
  /\ pred_set = <<>>
  /\ sig = EmptyMap
  /\ acc = 0
  /\ diff = EmptyMap
  /\ dmap = EmptyMap
  /\ fall_thru_sigs = <<>>
  /\ instr = EmptyMap
  /\ markers = {}
  /\ ret = <<>>
  /\ redirected = {}
  /\ splitLog = <<>>

InitModule(bs, n, cl) ==
  /\ funcs = ModFuncs(bs)
  /\ chain = ModChain(bs, n)
  /\ succs = ModSuccs(bs, n)
  /\ preds = ModPreds(bs, n)
  /\ stmts = ModStmts(bs, n, cl)
  /\ cs = ModCs(cl)
  /\ callees = ModCallees(bs, cl)

\* one function, any control flow, calls of external functions only
InitSingle ==
  /\ \E body \in Bodies(NumBlocks, MaxSucc, MaxEdges) :
       InitModule(<<body>>, Len(body.succ), <<>>)
  /\ hostCloneRev = TRUE

\* edges of a body
EdgeCount(g) == Len(Concat(g))

\* some function is cloned and has two call edges: only then does the order
\* in which the host lists a clone's call edges show
CloneOrderShows(cl, nf) ==
  \E f \in 1 .. nf :
    /\ Cardinality({i \in 1 .. Len(cl) : cl[i].callee = f}) >= 2
    /\ Cardinality({i \in 1 .. Len(cl) : cl[i].caller = f}) >= 2

\* several functions of one shape calling each other
InitCalls ==
  \E body \in Bodies(CallBlocks, 2, CallEdges) :
    \E cl \in CallLists(NumFuncs, CallSiteBlocks, MaxCalls) :
      /\ cl # <<>>
      /\ body.rev = {}
      /\ EdgeCount(body.succ) + Len(cl) <= CallBudget
      /\ \A i \in 1 .. Len(cl) : cl[i].blk <= Len(body.succ)
      /\ InitModule([f \in 1 .. NumFuncs |-> body], Len(body.succ), cl)
      /\ hostCloneRev \in (IF CloneOrderShows(cl, NumFuncs) THEN BOOLEAN ELSE {TRUE})

Init ==
  /\ InitPlan
  /\ enc = NoEnc
  /\ InitSingle \/ InitCalls



-----------------------------------------------------------------------------
(* plugin.cc, pass_cfcss::execute.                                         *)

HasBody(g) == g # External

\* lines 101-123: the call edges of every function, in list order
AllCallEdges == Concat([i \in 1 .. Len(funcs) |-> callees[funcs[i]]])

RECURSIVE Collect(_, _)
Collect(es, st) ==
  IF es = <<>> THEN st
  ELSE LET it == Head(es)
           g == cs[it].callee
       IN IF HasBody(g)
          THEN LET n == IF g \in DOMAIN st.nc THEN st.nc[g] + 1 ELSE 1
               IN Collect(Tail(es),
                          [st EXCEPT !.sites = Append(@, it),
                                     !.nc = MapPut(@, g, n),
                                     !.dn = MapPut(@, it, n - 1)])
          ELSE Collect(Tail(es), [st EXCEPT !.undef = Append(@, it)])

CollectCallSites ==
  /\ pc = "collect"
  /\ LET st == Collect(AllCallEdges,
                       [sites |-> <<>>, undef |-> <<>>, nc |-> EmptyMap, dn |-> EmptyMap])
     IN /\ call_sites' = st.sites
        /\ call_sites_undef' = st.undef
        /\ num_clones' = st.nc
        /\ dup_num' = st.dn
  /\ pc' = "clone"
  /\ UNCHANGED <<modVars, hostCloneRev, clones, pred_set, sig, acc, diff, dmap,
                 fall_thru_sigs, instr, markers, ret, redirected, splitLog, enc>>

\* state threaded through the cloning loop
CloneState ==
  [funcs |-> funcs, chain |-> chain, succs |-> succs, preds |-> preds,
   stmts |-> stmts, cs |-> cs, callees |-> callees,
   sites |-> call_sites, nc |-> num_clones, dn |-> dup_num, cl |-> EmptyMap,
   out |-> "ok"]

MaxKey(m) == IF DOMAIN m = {} THEN 0 ELSE CHOOSE x \in DOMAIN m : \A y \in DOMAIN m : y <= x

\* create_version_clone_with_body: a copy of f's body and of its call edges.
\* The copy's edges are made block by block, so its predecessor lists are in
\* block order; its call edges are listed reversed or not as the host does.
CloneBody(st, f) ==
  LET nf == MaxKey(st.chain) + 1
      base == MaxKey(st.succs)
      old == st.chain[f]
      n == Len(old)
      Nb(b) == IF b = ENTRY THEN ENTRY ELSE base + IndexOf(old, b)
      cbase == MaxKey(st.cs)
      oldc == st.callees[f]
      Nc(c) == cbase + IndexOf(oldc, c)
      newBlocks == {base + i : i \in 1 .. n}
      newSucc(i) == [j \in 1 .. Len(st.succs[old[i]]) |-> Nb(st.succs[old[i]][j])]
      newPred(i) ==
        (IF ENTRY \in Range(st.preds[old[i]]) THEN <<ENTRY>> ELSE <<>>)
          \o SortedSeq({Nb(p) : p \in Range(st.preds[old[i]]) \ {ENTRY}})
      copied == [j \in 1 .. Len(oldc) |-> Nc(oldc[j])]
  IN [st EXCEPT
        !.funcs = <<nf>> \o @,
        !.chain = MapPut(@, nf, [i \in 1 .. n |-> base + i]),
        !.succs = [b \in (DOMAIN @) \cup newBlocks |->
                     IF b \in newBlocks THEN newSucc(b - base) ELSE @[b]],
        !.preds = [b \in (DOMAIN @) \cup newBlocks |->
                     IF b \in newBlocks THEN newPred(b - base) ELSE @[b]],
        !.stmts = [b \in (DOMAIN @) \cup newBlocks |->
                     IF b \in newBlocks
                     THEN [j \in 1 .. Len(@[old[b - base]]) |-> Nc(@[old[b - base]][j])]
                     ELSE @[b]],
        !.cs = [c \in (DOMAIN @) \cup Range(copied) |->
                  IF c \in DOMAIN @ THEN @[c]
                  ELSE [caller |-> nf, callee |-> @[oldc[c - cbase]].callee]],
        !.callees = MapPut(@, nf, IF hostCloneRev THEN Reverse(copied) ELSE copied)]

\* lines 133-146: pair the clone's edges, head first, with f's, tail first
RECURSIVE PairEdges(_, _, _, _)
PairEdgesNoCheck(st, new, orig, j) ==
  IF j > Len(new) THEN st
  ELSE LET it1 == new[j]
           it2 == orig[Len(orig) - j + 1]
       IN IF HasBody(st.cs[it1].callee)
          THEN PairEdges([st EXCEPT !.sites = Append(@, it1),
                                    !.dn = MapPut(@, it1, MapGet(@, it2))],
                         new, orig, j + 1)
          ELSE PairEdges(st, new, orig, j + 1)

PairEdges(st, new, orig, j) ==
  IF j > Len(new) THEN st
  ELSE LET it1 == new[j]
           it2 == orig[Len(orig) - j + 1]
       IN IF st.cs[it1].callee # st.cs[it2].callee
          THEN [st EXCEPT !.out = "mismatch"]
          ELSE IF HasBody(st.cs[it1].callee)
               THEN PairEdges([st EXCEPT !.sites = Append(@, it1),
                                         !.dn = MapPut(@, it1, MapGet(@, it2))],
                              new, orig, j + 1)
               ELSE PairEdges(st, new, orig, j + 1)

\* lines 129-148 for one function: clone number i.  Line 134 dereferences
\* node->callees without a null test: when f has no call edge the behaviour
\* is undefined, and ub says whether the build traps there or runs on.
RECURSIVE CloneLoop(_, _, _, _)
CloneLoop(st, f, i, ub) ==
  IF st.out # "ok" \/ i >= MapGet(st.nc, f) THEN st
  ELSE LET c == CloneBody(st, f)
           nf == Head(c.funcs)
       IN IF st.callees[f] = <<>> /\ ub = "trap"
          THEN [c EXCEPT !.out = "trap"]
          ELSE LET p == PairEdges(c, c.callees[nf], c.callees[f], 1)
               IN CloneLoop([p EXCEPT !.cl = MapPut(@, <<f, i>>, nf)], f, i + 1, ub)

\* lines 125-149: clones registered during the walk are not visited by it
RECURSIVE CloneAll(_, _, _)
CloneAll(st, fs, ub) ==
  IF fs = <<>> \/ st.out # "ok" THEN st
  ELSE LET f == Head(fs)
           s0 == [st EXCEPT !.cl = MapPut(@, <<f, 0>>, f),
                            !.nc = MapPut(@, f, MapGet(@, f))]
       IN CloneAll(CloneLoop(s0, f, 1, ub), Tail(fs), ub)

\* line 140: return -1 (the bit pattern of -1 in the unsigned result)
FailCode == 0 - 1

CloneFunctions ==
  /\ pc = "clone"
  /\ \E ub \in {"trap", "run"} :
       LET st == CloneAll(CloneState, funcs, ub)
       IN /\ funcs' = st.funcs
          /\ chain' = st.chain
          /\ succs' = st.succs
          /\ preds' = st.preds
          /\ stmts' = st.stmts
          /\ cs' = st.cs
          /\ callees' = st.callees
          /\ call_sites' = st.sites
          /\ num_clones' = st.nc
          /\ dup_num' = st.dn
          /\ clones' = st.cl
          /\ pc' = CASE st.out = "ok" -> "redirect"
                     [] st.out = "mismatch" -> "done"
                     [] OTHER -> "trapped"
          /\ ret' = IF st.out = "mismatch" THEN <<FailCode>> ELSE ret
  /\ UNCHANGED <<hostCloneRev, call_sites_undef, pred_set, sig, acc, diff, dmap,
                 fall_thru_sigs, instr, markers, redirected, splitLog, enc>>

\* the block holding call statement c
BlockOf(st, c) == CHOOSE b \in DOMAIN st.stmts : c \in Range(st.stmts[b])

FuncOf(ch, b) == CHOOSE f \in DOMAIN ch : b \in Range(ch[f])

\* split_block(bb, stmt): the statements after stmt move to a new block placed
\* after bb; the new block takes over bb's successor edges
SplitBlock(st, bb, c) ==
  LET nb == MaxKey(st.succs) + 1
      f == FuncOf(st.chain, bb)
      k == IndexOf(st.stmts[bb], c)
      all == (DOMAIN st.succs) \cup {nb}
  IN [st EXCEPT
        !.chain[f] = Splice(@, IndexOf(@, bb), <<bb, nb>>),
        !.succs = [b \in all |-> IF b = bb THEN <<nb>>
                                 ELSE IF b = nb THEN st.succs[bb] ELSE @[b]],
        !.preds = [b \in all |->
                     IF b = nb THEN <<bb>>
                     ELSE [j \in 1 .. Len(@[b]) |->
                             IF @[b][j] = bb /\ b \in Range(st.succs[bb])
                             THEN nb ELSE @[b][j]]],
        !.stmts = [b \in all |->
                     IF b = bb THEN SubSeq(@[bb], 1, k)
                     ELSE IF b = nb THEN SubSeq(@[bb], k + 1, Len(@[bb]))
                     ELSE @[b]],
        !.log = Append(@, [kind |-> "split_block", pred_bb |-> bb, succ_bb |-> bb,
                           bb |-> nb, s0 |-> bb])]

\* lines 151-159
RECURSIVE RedirectSplit(_, _)
RedirectSplit(st, sites) ==
  IF sites = <<>> THEN st
  ELSE LET c == Head(sites)
           target == MapGet(st.cl, <<st.cs[c].callee, MapGet(st.dn, c)>>)
           r == [st EXCEPT !.cs[c].callee = target, !.red = @ \cup {c}]
       IN RedirectSplit(SplitBlock(r, BlockOf(r, c), c), Tail(sites))

RedirectAndSplit ==
  /\ pc = "redirect"
  /\ LET st == RedirectSplit([chain |-> chain, succs |-> succs, preds |-> preds,
                              stmts |-> stmts, cs |-> cs, cl |-> clones,
                              dn |-> dup_num, red |-> redirected, log |-> splitLog],
                             call_sites)
     IN /\ chain' = st.chain
        /\ succs' = st.succs
        /\ preds' = st.preds
        /\ stmts' = st.stmts
        /\ cs' = st.cs
        /\ redirected' = st.red
        /\ splitLog' = st.log
  /\ pc' = "callpreds"
  /\ UNCHANGED <<funcs, callees, hostCloneRev, call_sites, call_sites_undef,
                 num_clones, dup_num, clones, pred_set, sig, acc, diff, dmap,
                 fall_thru_sigs, instr, markers, ret, enc>>

\* a block with a GIMPLE_RETURN: its only successor edge leads to EXIT
HasReturn(b) == succs[b] = <<>>

\* lines 167-176
RECURSIVE CallPreds(_, _)
CallPreds(ps, sites) ==
  IF sites = <<>> THEN ps
  ELSE LET c == Head(sites)
           cbb == BlockOf([stmts |-> stmts], c)
           g == chain[cs[c].callee]
           rets == SelectSeq(g, HasReturn)
           after == succs[cbb][1]
       IN CallPreds(Append(ps, <<g[1], cbb>>) \o [i \in 1 .. Len(rets) |-> <<after, rets[i]>>],
                    Tail(sites))

FindCallPreds ==
  /\ pc = "callpreds"
  /\ pred_set' = CallPreds(pred_set, call_sites)
  /\ pc' = "sig"
  /\ UNCHANGED <<modVars, hostCloneRev, call_sites, call_sites_undef, num_clones,
                 dup_num, clones, sig, acc, diff, dmap, fall_thru_sigs, instr,
                 markers, ret, redirected, splitLog, enc>>

\* every block of the module, FOR_EACH_FUNCTION_WITH_GIMPLE_BODY / FOR_EACH_BB_FN
AllBlocks == Concat([i \in 1 .. Len(funcs) |-> chain[funcs[i]]])

\* lines 178-183: sig[bb] = acc++ on a uint8_t
RECURSIVE Assign(_, _, _)
AssignNoIncrement(bs, m, a) ==
  IF bs = <<>> THEN [sig |-> m, acc |-> a]
  ELSE Assign(Tail(bs), MapPut(m, Head(bs), a), a)

Assign(bs, m, a) ==
  IF bs = <<>> THEN [sig |-> m, acc |-> a]
  ELSE Assign(Tail(bs), MapPut(m, Head(bs), a), (a + 1) % SigMod)

AssignSignatures ==
  /\ pc = "sig"
  /\ LET r == Assign(AllBlocks, sig, acc)
     IN sig' = r.sig /\ acc' = r.acc
  /\ pc' = "diff"
  /\ UNCHANGED <<modVars, hostCloneRev, call_sites, call_sites_undef, num_clones,
                 dup_num, clones, pred_set, diff, dmap, fall_thru_sigs, instr,
                 markers, ret, redirected, splitLog, enc>>


\* pred_set.equal_range(bb): the call-related predecessors of bb, oldest first
PredSetOf(ps, bb) ==
  LET hits == SelectSeq(ps, LAMBDA e : e[1] = bb)
  IN [i \in 1 .. Len(hits) |-> hits[i][2]]

\* dmap[p] = sig[p] ^ sig[base] for every p of ps, in order
RECURSIVE Adjust(_, _, _, _)
Adjust(dm, ps, base, sg) ==
  IF ps = <<>> THEN dm
  ELSE Adjust(MapPut(dm, Head(ps), BitXor(MapGet(sg, Head(ps)), MapGet(sg, base))),
              Tail(ps), base, sg)

\* lines 187-218 for one block
PlanBlockLastBase(st, bb) ==
  LET cp == preds[bb]
      s == MapGet(sig, bb)
  IN IF Len(cp) >= 1
     THEN [st EXCEPT !.diff = MapPut(@, bb, BitXor(MapGet(sig, cp[Len(cp)]), s)),
                     !.dmap = IF Len(cp) >= 2 THEN Adjust(@, cp, cp[Len(cp)], sig) ELSE @]
     ELSE [st EXCEPT !.diff = MapPut(@, bb, s)]

PlanBlock(st, bb) ==
  LET ps == PredSetOf(pred_set, bb)
      cp == preds[bb]
      s == MapGet(sig, bb)
  IN IF Len(ps) = 1
     THEN [st EXCEPT !.diff = MapPut(@, bb, BitXor(MapGet(sig, ps[1]), s))]
     ELSE IF Len(ps) >= 2
     THEN [st EXCEPT !.diff = MapPut(@, bb, BitXor(MapGet(sig, ps[1]), s)),
                     !.dmap = Adjust(@, ps, ps[1], sig)]
     ELSE IF Len(cp) = 1
     THEN [st EXCEPT !.diff = MapPut(@, bb, BitXor(MapGet(sig, cp[1]), s))]
     ELSE IF Len(cp) >= 2
     THEN [st EXCEPT !.diff = MapPut(@, bb, BitXor(MapGet(sig, cp[1]), s)),
                     !.dmap = Adjust(@, cp, cp[1], sig)]
     ELSE [st EXCEPT !.diff = MapPut(@, bb, s)]

RECURSIVE PlanAll(_, _)
PlanAll(st, bs) ==
  IF bs = <<>> THEN st ELSE PlanAll(PlanBlock(st, Head(bs)), Tail(bs))

\* lines 185-219
PlanDiffs ==
  /\ pc = "diff"
  /\ LET st == PlanAll([diff |-> diff, dmap |-> dmap], AllBlocks)
     IN diff' = st.diff /\ dmap' = st.dmap
  /\ pc' = "special"
  /\ UNCHANGED <<modVars, hostCloneRev, call_sites, call_sites_undef, num_clones,
                 dup_num, clones, pred_set, sig, acc, fall_thru_sigs, instr,
                 markers, ret, redirected, splitLog, enc>>

\* lines 226-230: both successors are multi-fan-in and their base
\* predecessors differ
DoubleJoin(bb) ==
  /\ Len(succs[bb]) = 2
  /\ Len(preds[succs[bb][1]]) > 1
  /\ Len(preds[succs[bb][2]]) > 1
  /\ preds[succs[bb][1]][1] # preds[succs[bb][2]][1]

RECURSIVE Special(_, _)
Special(st, bs) ==
  IF bs = <<>> THEN st
  ELSE LET bb == Head(bs)
       IN IF DoubleJoin(bb)
          THEN LET br_target == succs[bb][1]
               IN Special([st EXCEPT
                             !.fts = Append(@, bb),
                             !.dmap = MapPut(@, bb,
                                        BitXor(MapGet(sig, bb),
                                               MapGet(sig, preds[br_target][1])))],
                          Tail(bs))
          ELSE Special(st, Tail(bs))

\* lines 221-241
PlanSpecial ==
  /\ pc = "special"
  /\ LET st == Special([fts |-> fall_thru_sigs, dmap |-> dmap], AllBlocks)
     IN fall_thru_sigs' = st.fts /\ dmap' = st.dmap
  /\ pc' = "undef"
  /\ UNCHANGED <<modVars, hostCloneRev, call_sites, call_sites_undef, num_clones,
                 dup_num, clones, pred_set, sig, acc, diff, instr, markers, ret,
                 redirected, splitLog, enc>>

\* lines 243-260: the CUSTOM_1 markers before and after each external call
MarkUndefCalls ==
  /\ pc = "undef"
  /\ markers' = markers \cup Range(call_sites_undef)
  /\ pc' = "splitedge"
  /\ UNCHANGED <<modVars, hostCloneRev, call_sites, call_sites_undef, num_clones,
                 dup_num, clones, pred_set, sig, acc, diff, dmap, fall_thru_sigs,
                 instr, ret, redirected, splitLog, enc>>


\* split_edge_bb_loc: the block after which split_edge places the new block
SplitEdgeBbLoc(st, src, dest) ==
  LET f == FuncOf(st.chain, dest)
      k == IndexOf(st.chain[f], dest)
      dest_prev == IF k = 1 THEN ENTRY ELSE st.chain[f][k - 1]
  IN IF dest_prev \in Range(st.preds[dest]) THEN src ELSE dest_prev

\* split_edge(e) for e = (src, dest): a new block on the edge; the new edge
\* into dest takes e's place in dest's predecessor list
SplitEdge(st, src, dest) ==
  LET nb == MaxKey(st.succs) + 1
      f == FuncOf(st.chain, dest)
      after == SplitEdgeBbLoc(st, src, dest)
      all == (DOMAIN st.succs) \cup {nb}
  IN [st EXCEPT
        !.chain[f] = IF after = ENTRY THEN <<nb>> \o @
                     ELSE Splice(@, IndexOf(@, after), <<after, nb>>),
        !.succs = [b \in all |->
                     IF b = nb THEN <<dest>>
                     ELSE IF b = src
                     THEN [j \in 1 .. Len(@[b]) |-> IF @[b][j] = dest THEN nb ELSE @[b][j]]
                     ELSE @[b]],
        !.preds = [b \in all |->
                     IF b = nb THEN <<src>>
                     ELSE IF b = dest
                     THEN [j \in 1 .. Len(@[b]) |-> IF @[b][j] = src THEN nb ELSE @[b][j]]
                     ELSE @[b]],
        !.stmts = [b \in all |-> IF b = nb THEN <<>> ELSE @[b]],
        !.new = nb]

\* lines 262-274
RECURSIVE FallThru(_, _)
FallThruBaseOfTarget(st, fts) ==
  IF fts = <<>> THEN st
  ELSE LET pred_bb == Head(fts)
           s0 == st.succs[pred_bb][1]
           succ_bb == st.succs[pred_bb][2]
           dmap_val == BitXor(MapGet(st.sig, pred_bb), MapGet(st.sig, st.preds[s0][1]))
           sp == SplitEdge(st, pred_bb, succ_bb)
           bb == sp.new
       IN FallThru([sp EXCEPT
                      !.sig = MapPut(@, bb, MapGet(@, pred_bb)),
                      !.diff = MapPut(@, bb, 0),
                      !.dmap = MapPut(@, bb, dmap_val),
                      !.log = Append(@, [kind |-> "split_edge", pred_bb |-> pred_bb,
                                         succ_bb |-> succ_bb, bb |-> bb, s0 |-> s0])],
                   Tail(fts))

FallThru(st, fts) ==
  IF fts = <<>> THEN st
  ELSE LET pred_bb == Head(fts)
           s0 == st.succs[pred_bb][1]
           succ_bb == st.succs[pred_bb][2]
           dmap_val == BitXor(MapGet(st.sig, pred_bb), MapGet(st.sig, st.preds[succ_bb][1]))
           sp == SplitEdge(st, pred_bb, succ_bb)
           bb == sp.new
       IN FallThru([sp EXCEPT
                      !.sig = MapPut(@, bb, MapGet(@, pred_bb)),
                      !.diff = MapPut(@, bb, 0),
                      !.dmap = MapPut(@, bb, dmap_val),
                      !.log = Append(@, [kind |-> "split_edge", pred_bb |-> pred_bb,
                                         succ_bb |-> succ_bb, bb |-> bb, s0 |-> s0])],
                   Tail(fts))

SplitFallThru ==
  /\ pc = "splitedge"
  /\ LET st == FallThru([chain |-> chain, succs |-> succs, preds |-> preds,
                         stmts |-> stmts, sig |-> sig, diff |-> diff, dmap |-> dmap,
                         log |-> splitLog, new |-> 0], fall_thru_sigs)
     IN /\ chain' = st.chain
        /\ succs' = st.succs
        /\ preds' = st.preds
        /\ stmts' = st.stmts
        /\ sig' = st.sig
        /\ diff' = st.diff
        /\ dmap' = st.dmap
        /\ splitLog' = st.log
  /\ pc' = "emit"
  /\ UNCHANGED <<funcs, cs, callees, hostCloneRev, call_sites, call_sites_undef,
                 num_clones, dup_num, clones, pred_set, acc, fall_thru_sigs, instr,
                 markers, ret, redirected, enc>>

\* line 287: the join form is emitted for multi-fan-in blocks
JoinForm(bb) == Len(preds[bb]) >= 2 \/ Len(PredSetOf(pred_set, bb)) >= 2

\* lines 283-292: the instruction inserted in bb
CheckInstr(bb) ==
  LET cur_sig == MapGet(sig, bb)
      cur_diff == MapGet(diff, bb)
      cur_adj == IF bb \in DOMAIN dmap THEN dmap[bb] ELSE 0
      m == IF JoinForm(bb) THEN 1 ELSE 0
  IN [d |-> cur_diff, S |-> cur_sig, D |-> cur_adj, m |-> m,
      f |-> IF m = 1 THEN InstCtrlsigM(cur_diff, cur_sig, cur_adj)
                     ELSE InstCtrlsigS(cur_diff, cur_sig, cur_adj)]

\* lines 277-297
Emit ==
  /\ pc = "emit"
  /\ instr' = [bb \in Range(AllBlocks) |-> CheckInstr(bb)]
  /\ ret' = <<0>>
  /\ pc' = "done"
  /\ UNCHANGED <<modVars, hostCloneRev, call_sites, call_sites_undef, num_clones,
                 dup_num, clones, pred_set, sig, acc, diff, dmap, fall_thru_sigs,
                 markers, redirected, splitLog, enc>>

Next ==
  \/ CollectCallSites
  \/ CloneFunctions
  \/ RedirectAndSplit
  \/ FindCallPreds
  \/ AssignSignatures
  \/ PlanDiffs
  \/ PlanSpecial
  \/ MarkUndefCalls
  \/ SplitFallThru
  \/ Emit

Spec == Init /\ [][Next]_vars


-----------------------------------------------------------------------------
(* The encoder on its own.                                                 *)

EncodeS ==
  /\ ~enc.done
  /\ enc' = [enc EXCEPT !.m = 0, !.f = InstCtrlsigS(enc.d, enc.S, enc.D),
                      !.fn = "inst_ctrlsig_s", !.done = TRUE]
  /\ UNCHANGED <<pc, modVars, hostCloneRev, planVars, ret>>

EncodeM ==
  /\ ~enc.done
  /\ enc' = [enc EXCEPT !.m = 1, !.f = InstCtrlsigM(enc.d, enc.S, enc.D),
                      !.fn = "inst_ctrlsig_m", !.done = TRUE]
  /\ UNCHANGED <<pc, modVars, hostCloneRev, planVars, ret>>

EncInit ==
  /\ InitPlan
  /\ InitModule(<<[succ |-> <<<<>>>>, rev |-> {}]>>, 1, <<>>)
  /\ hostCloneRev = TRUE
  /\ \E t \in EncInputs : enc = [NoEnc EXCEPT !.d = t[1], !.S = t[2], !.D = t[3]]

EncNext == EncodeS \/ EncodeM

EncSpec == EncInit /\ [][EncNext]_vars


-----------------------------------------------------------------------------
(* The emitted instruction at run time (util.h).                           *)

\* ctrlsig_s: G = G ^ d; ctrlsig_m: G = G ^ d ^ D; then if G == S, D = D
\* operand, else an exception is raised
Exec(i, G, D) ==
  LET g == IF i.m = 1 THEN BitXor(BitXor(G, i.d), D) ELSE BitXor(G, i.d)
  IN [G |-> g, D |-> IF g = i.S THEN i.D ELSE D, fault |-> g # i.S]

\* arriving in v from u, u's check having passed
Arrive(u, v) ==
  IF u = ENTRY THEN Exec(instr[v], 0, 0)
  ELSE Exec(instr[v], instr[u].S, instr[u].D)

Passes(u, v) == ~Arrive(u, v).fault /\ Arrive(u, v).G = MapGet(sig, v)

Finished == pc = "done" /\ ret = <<0>>

Blocks == Range(AllBlocks)

\* u ends in a call of a function of the module: control leaves u for the
\* callee, not for u's CFG successor
CallBlock(u) == stmts[u] # <<>> /\ HasBody(cs[stmts[u][Len(stmts[u])]].callee)


-----------------------------------------------------------------------------
(* Vocabulary of the properties.                                           *)

CallPredsOf(v) == PredSetOf(pred_set, v)

\* the split_edge calls, and the synthetic blocks they made
EdgeLog == SelectSeq(splitLog, LAMBDA e : e.kind = "split_edge")

Synth == {EdgeLog[i].bb : i \in 1 .. Len(EdgeLog)}

\* v is a legal successor of u: a CFG successor, the entry of u's callee, or
\* the block after a call whose callee returns from u
Legal(u, v) == v \in Range(succs[u]) \/ u \in Range(CallPredsOf(v))

\* the predecessor the diff of v is computed from (ENTRY has signature 0)
BasePred(v) ==
  IF CallPredsOf(v) # <<>> THEN CallPredsOf(v)[1]
  ELSE IF preds[v] # <<>> THEN preds[v][1] ELSE ENTRY

\* f has a call site somewhere in the module
Called(f) == \E c \in Range(call_sites) : cs[c].callee = f

\* the CFG before the split_edge calls: a synthetic block stands for its edge
PreSuccs(b) ==
  [j \in 1 .. Len(succs[b]) |->
     IF succs[b][j] \in Synth THEN succs[succs[b][j]][1] ELSE succs[b][j]]

PrePreds(b) ==
  [j \in 1 .. Len(preds[b]) |->
     IF preds[b][j] \in Synth THEN preds[preds[b][j]][1] ELSE preds[b][j]]

\* nothing of the transform beyond cloning has happened
Untouched ==
  /\ redirected = {}
  /\ splitLog = <<>>
  /\ sig = EmptyMap
  /\ diff = EmptyMap
  /\ instr = EmptyMap
  /\ markers = {}

\* at the cloning loop: some function to be cloned has a call edge whose
\* partner in the pairing of lines 135-137 names another callee
SomeMismatch ==
  \E f \in Range(funcs) :
    /\ MapGet(num_clones, f) >= 2
    /\ LET orig == callees[f]
           new == IF hostCloneRev THEN Reverse(orig) ELSE orig
       IN \E j \in 1 .. Len(orig) :
            cs[new[j]].callee # cs[orig[Len(orig) - j + 1]].callee

-----------------------------------------------------------------------------
(* C1 *)
\* C1: in the final instrumented CFG no legal intraprocedural edge faults:
\* for every CFG edge (u, v) whose source does not end in a call of a module
\* function, starting from G = sig(u) and D = the adjust value u loaded, v's
\* instruction leaves G = sig(v) without a fault; and the first block of a
\* function nobody calls passes from G = 0, D = 0.
C1_NoFalseFault ==
  Finished =>
    /\ \A u \in Blocks : \A v \in Range(succs[u]) : ~CallBlock(u) => Passes(u, v)
    /\ \A f \in Range(funcs) : ~Called(f) => Passes(ENTRY, chain[f][1])

(* C2 *)
\* C2 as claimed: every transfer from u to a block v that is not a legal
\* successor of u faults at v's check.
C2_IllegalJumpDetected ==
  Finished =>
    \A u \in Blocks : \A v \in Blocks : ~Legal(u, v) => Arrive(u, v).fault

\* C2 amended: such a transfer faults exactly when sig(u), XORed with the
\* adjust value u loaded if v is in join form, differs from the signature of
\* the predecessor v's diff was computed from.
C2_IllegalJumpDetectedUnlessAliased ==
  Finished =>
    \A u \in Blocks : \A v \in Blocks :
      ~Legal(u, v) =>
        (Arrive(u, v).fault <=>
           (IF instr[v].m = 1 THEN BitXor(sig[u], instr[u].D) ELSE sig[u])
             # MapGet(sig, BasePred(v)))

\* an illegal transfer into a join-form block that passes the check, and one
\* into a single-form block that is caught
C2_Witness ==
  /\ Finished
  /\ \E u \in Blocks : \E v \in Blocks :
       ~Legal(u, v) /\ instr[v].m = 1 /\ ~Arrive(u, v).fault
  /\ \E u \in Blocks : \E v \in Blocks :
       ~Legal(u, v) /\ instr[v].m = 0 /\ Arrive(u, v).fault

(* C3 *)
\* C3: decoding the five fields _inst_ctrlsig emits for (d, S, D, m) with the
\* inverse of the packing returns (d, S, D, m), and each field fits its width.
C3_RoundTrip ==
  enc.done =>
    /\ DecFields(enc.f) = [d |-> enc.d, S |-> enc.S, D |-> enc.D, m |-> enc.m]
    /\ enc.f.f3 < 8 /\ enc.f.funct7 < 128
    /\ enc.f.rd < 32 /\ enc.f.rs1 < 32 /\ enc.f.rs2 < 32

C3_Witness ==
  /\ enc.done /\ enc.d = 18 /\ enc.S = 52 /\ enc.D = 86 /\ enc.m = 1
  /\ DecFields(enc.f).S = 52

(* C4 *)
\* C4: in the R-type word built from the emitted fields, bits 31..24 are d,
\* 23..16 are S, 15..8 are D, bit 7 is m and bits 6..0 the opcode;
\* inst_ctrlsig_s gives bit 7 = 0 and inst_ctrlsig_m gives bit 7 = 1.
C4_BitLayout ==
  enc.done =>
    /\ WordBits(enc.f, 31, 24) = enc.d
    /\ WordBits(enc.f, 23, 16) = enc.S
    /\ WordBits(enc.f, 15, 8) = enc.D
    /\ WordBits(enc.f, 7, 7) = enc.m
    /\ WordBits(enc.f, 6, 0) = Custom0
    /\ enc.fn = "inst_ctrlsig_s" => WordBits(enc.f, 7, 7) = 0
    /\ enc.fn = "inst_ctrlsig_m" => WordBits(enc.f, 7, 7) = 1

C4_Witness ==
  /\ enc.done /\ enc.fn = "inst_ctrlsig_m" /\ enc.d = 255 /\ enc.S = 1 /\ enc.D = 128
  /\ WordBits(enc.f, 15, 8) = 128


(* C5 *)
\* C5: in a module without call-related predecessors and without a block in
\* the double-join condition, every block's diff is its signature XOR the
\* signature of the first predecessor in its stored list (the ENTRY pseudo
\* block, signature 0, leads the list of a function's first block; a block
\* without predecessor has diff = signature), and every predecessor p of a
\* join block has AdjustMap[p] = sig(p) XOR sig(first predecessor).
C5_DiffAndAdjustRule ==
  (Finished /\ pred_set = <<>> /\ EdgeLog = <<>>) =>
    \A b \in Blocks :
      /\ diff[b] = IF preds[b] = <<>> THEN sig[b]
                   ELSE BitXor(MapGet(sig, preds[b][1]), sig[b])
      /\ Len(preds[b]) >= 2 =>
           \A p \in Range(preds[b]) :
             /\ p \in DOMAIN dmap
             /\ dmap[p] = BitXor(MapGet(sig, p), MapGet(sig, preds[b][1]))

(* C6 *)
\* C6: for every block b that before the edge splits has exactly two
\* successors s0, s1, both with two or more predecessors and different first
\* predecessors, exactly one synthetic block b' sits on (b, s1) and none on
\* (b, s0); sig(b) XOR diff(s0) XOR AdjustMap[b] = sig(s0),
\* sig(b') XOR diff(s1) XOR AdjustMap[b'] = sig(s1), and b' passes its own
\* check when entered from b.
C6_DoubleJoin ==
  Finished =>
    \A b \in Blocks \ Synth :
      LET ps == PreSuccs(b)
      IN (/\ Len(ps) = 2
          /\ Len(PrePreds(ps[1])) > 1
          /\ Len(PrePreds(ps[2])) > 1
          /\ PrePreds(ps[1])[1] # PrePreds(ps[2])[1])
         =>
         LET s0 == ps[1]
             s1 == ps[2]
             bn == succs[b][2]
         IN /\ succs[b][1] = s0
            /\ bn \in Synth
            /\ succs[bn] = <<s1>>
            /\ preds[bn] = <<b>>
            /\ Cardinality({i \in 1 .. Len(EdgeLog) : EdgeLog[i].pred_bb = b}) = 1
            /\ BitXor(BitXor(sig[b], diff[s0]), MapGet(dmap, b)) = sig[s0]
            /\ BitXor(BitXor(sig[bn], diff[s1]), MapGet(dmap, bn)) = sig[s1]
            /\ Passes(b, bn)

(* C7 *)
\* C7 as claimed: any two distinct blocks with a checking instruction have
\* different signatures.
C7_AllSignaturesDistinct ==
  Finished =>
    \A a \in Blocks : \A b \in Blocks :
      /\ a \in DOMAIN sig
      /\ a # b => sig[a] # sig[b]

\* C7 amended: every block with a checking instruction has a signature; any
\* two distinct blocks numbered by the counter (all but the synthetic blocks
\* of the double-join case) have different signatures, and a synthetic block
\* has the signature of the block whose edge it splits.
C7_CounterSignaturesDistinct ==
  Finished =>
    /\ \A a \in Blocks : a \in DOMAIN sig /\ a \in DOMAIN instr
    /\ \A a \in Blocks \ Synth : \A b \in Blocks \ Synth : a # b => sig[a] # sig[b]
    /\ \A i \in 1 .. Len(EdgeLog) : sig[EdgeLog[i].bb] = sig[EdgeLog[i].pred_bb]

C7_Witness == Finished /\ Synth # {} /\ Cardinality(Blocks \ Synth) >= 4

(* C8 *)
\* C8 as claimed: the synthetic block b' on (b, s1) has sig(b') = sig(b),
\* diff(b') = 0 and AdjustMap[b'] = sig(b) XOR sig(first predecessor of s0).
C8_SyntheticUsesBranchTargetBase ==
  Finished =>
    \A i \in 1 .. Len(EdgeLog) :
      LET e == EdgeLog[i]
      IN /\ sig[e.bb] = sig[e.pred_bb]
         /\ diff[e.bb] = 0
         /\ dmap[e.bb] = BitXor(sig[e.pred_bb], MapGet(sig, preds[e.s0][1]))

\* C8 amended: sig(b') = sig(b), diff(b') = 0 and
\* AdjustMap[b'] = sig(b) XOR sig(first predecessor of s1), s1 the
\* fallthrough successor whose edge is split.
C8_SyntheticUsesFallThruBase ==
  Finished =>
    \A i \in 1 .. Len(EdgeLog) :
      LET e == EdgeLog[i]
      IN /\ sig[e.bb] = sig[e.pred_bb]
         /\ diff[e.bb] = 0
         /\ dmap[e.bb] = BitXor(sig[e.pred_bb], MapGet(sig, preds[e.succ_bb][1]))

C8_Witness ==
  /\ Finished
  /\ \E i \in 1 .. Len(EdgeLog) :
       LET e == EdgeLog[i]
       IN /\ dmap[e.bb] # 0
          /\ MapGet(sig, preds[e.s0][1]) # MapGet(sig, preds[e.succ_bb][1])

(* C9 *)
\* C9: when the pairing of a clone's call edges with the original's finds two
\* different callees, execute returns the failure code, and then no call site
\* is redirected, no block split, no signature or diff assigned and no
\* checking or marker instruction inserted.
C9_MismatchAborts ==
  [][/\ (pc = "clone" /\ SomeMismatch) =>
          \/ pc' = "trapped"
          \/ (pc' = "done" /\ ret' = <<FailCode>>)
     /\ (ret' = <<FailCode>>) => (pc' = "done" /\ Untouched')]_vars

C9_Witness == pc = "done" /\ ret = <<FailCode>> /\ Len(funcs) > NumFuncs

(* C10 *)
\* C10: for every call site of a module function, the callee's first block
\* passes its check when entered from the calling block, the block after the
\* call passes its check when entered from any returning block of the callee,
\* and a block with call-related predecessors is in join form exactly when
\* its diff was computed by the join rule (two or more such predecessors).
C10_CallReturnEdges ==
  Finished =>
    /\ \A c \in Range(call_sites) :
         LET cb == BlockOf([stmts |-> stmts], c)
             callee == chain[cs[c].callee]
         IN /\ Passes(cb, callee[1])
            /\ \A r \in Range(callee) : HasReturn(r) => Passes(r, succs[cb][1])
    /\ \A v \in Blocks :
         CallPredsOf(v) # <<>> => (instr[v].m = 1 <=> Len(CallPredsOf(v)) >= 2)

=============================================================================
